---- MODULE Spec2Model ----
(***************************************************************************)
(* Model of the command router of src/main.py: the /task orchestrator      *)
(* (create_task), its intent classifier (is_greeting, match_intent), the    *)
(* parameter extractor (extract_params), the conversational fallback        *)
(* (query_llm_chat), the Android forwarder (send_to_android) and the raw    *)
(* /command entry point (raw_command); and of the chat connector of         *)
(* src/discord_bot.py (on_message, safe_edit), which has a specification    *)
(* of its own, BotSpec.                                                     *)
(*                                                                          *)
(* Texts.  A message text is a sequence of words; the text it stands for    *)
(* is the words joined by one space.  The empty word "" therefore stands    *)
(* for extra whitespace: <<"", "hi">> is " hi", <<"read", "", "email">> is  *)
(* "read  email", <<>> and <<"">> are the empty text.  Words are runs of    *)
(* \w characters, so the regular expressions' \b falls exactly at the       *)
(* edges of a word.  A completion text is a sequence of characters.         *)
(***************************************************************************)
EXTENDS Integers, Sequences, FiniteSets, TLC

VARIABLES
    config,      \* the process environment: ANDROID_LOCAL_URL, ANDROID_URL
    pc,          \* position of the request handler
    discord_id,  \* data.get("discord_id", "")
    body,        \* data.get("message", "") as received
    message,     \* create_task's local `message` (stripped)
    action,      \* create_task's local `action`
    params,      \* create_task's local `params`
    llm,         \* the completion service's answer to the last POST
    payload,     \* send_to_android's local `payload`
    urls,        \* send_to_android's local `urls`
    idx,         \* position of send_to_android's loop in `urls`
    last_error,  \* send_to_android's local `last_error`
    attempts,    \* the POSTs made to the device endpoint, with their answers
    outcome,     \* what the handler returned or raised
    calls,       \* the components invoked for this request, in order
    route,       \* the entry point of the request: /task or /command
    bot          \* the chat connector's on_message handler (discord_bot.py)

vars == <<config, pc, discord_id, body, message, action, params, llm,
          payload, urls, idx, last_error, attempts, outcome, calls, route,
          bot>>

(***************************************************************************)
(* Bounds of the model.                                                     *)
(***************************************************************************)
MaxWords == 3

(***************************************************************************)
(* Generic helpers on sequences.                                            *)
(***************************************************************************)
RECURSIVE LStrip(_, _)
LStrip(s, drop) ==
    IF s # <<>> /\ Head(s) \in drop THEN LStrip(Tail(s), drop) ELSE s

RECURSIVE RStrip(_, _)
RStrip(s, drop) ==
    IF s # <<>> /\ s[Len(s)] \in drop
    THEN RStrip(SubSeq(s, 1, Len(s) - 1), drop)
    ELSE s

StripSet(s, drop) == RStrip(LStrip(s, drop), drop)

RECURSIVE SumLen(_, _, _)
SumLen(t, from, to) ==
    IF from > to THEN 0 ELSE Len(t[from]) + SumLen(t, from + 1, to)

(***************************************************************************)
(* Configuration.                                                           *)
(***************************************************************************)
AUTHORIZED_DISCORD_IDS == {"1001"}

DiscordIds == {"1001", "2002", ""}

Filler == "xxxxxxxxxxxxxxxxxxxxxxxxxxxxxxxxxxxxxxxxx"

Vocabulary == {"", "hi", "read", "email", Filler}

RECURSIVE WordSeqs(_)
WordSeqs(n) ==
    IF n = 0 THEN {<<>>}
    ELSE LET shorter == WordSeqs(n - 1)
         IN  shorter \cup {Append(s, w) : s \in {x \in shorter : Len(x) = n - 1},
                                          w \in Vocabulary}

Messages == WordSeqs(MaxWords)

(***************************************************************************)
(* Intent patterns.  A pattern is \b(head)\b, or \b(head)\b.{0,40}\b(tail)\b*)
(* when gapped, where head and tail are sets of phrases, a phrase being     *)
(* words separated by one space; anyTail stands for \w+.                    *)
(***************************************************************************)
GapMax == 40

Simple(head) ==
    [head |-> head, gapped |-> FALSE, tail |-> {}, anyTail |-> FALSE]

Gapped(head, tail) ==
    [head |-> head, gapped |-> TRUE, tail |-> tail, anyTail |-> FALSE]

GappedAny(head) ==
    [head |-> head, gapped |-> TRUE, tail |-> {}, anyTail |-> TRUE]

ReadVerbs == {<<"read">>, <<"summarise">>, <<"summarize">>, <<"show">>}

INTENT_PATTERNS == <<
    [pattern |-> Gapped(ReadVerbs,
                        {<<"email">>, <<"emails">>, <<"inbox">>, <<"gmail">>,
                         <<"outlook">>}),
     action |-> "read_email_summary"],
    [pattern |-> Gapped(ReadVerbs,
                        {<<"text">>, <<"texts">>, <<"sms">>, <<"messages">>}),
     action |-> "read_text_messages"],
    [pattern |-> Simple({<<"calendar">>, <<"reminder">>, <<"remind", "me">>,
                         <<"schedule">>, <<"event">>, <<"appointment">>}),
     action |-> "add_calendar_reminder"],
    [pattern |-> Simple({<<"note">>, <<"notes">>, <<"notepad">>, <<"memo">>,
                         <<"jot">>, <<"write", "this", "down">>}),
     action |-> "add_note"],
    [pattern |-> GappedAny({<<"text">>, <<"sms">>, <<"tell">>, <<"say", "to">>,
                            <<"msg">>, <<"message">>}),
     action |-> "send_sms"],
    [pattern |-> Simple({<<"email">>, <<"mail">>}),
     action |-> "send_email"],
    [pattern |-> Simple({<<"alarm">>, <<"wake">>, <<"remind">>, <<"reminder">>}),
     action |-> "set_alarm"],
    [pattern |-> Simple({<<"play">>, <<"music">>, <<"song">>, <<"spotify">>,
                         <<"listen">>, <<"queue">>, <<"shuffle">>, <<"track">>}),
     action |-> "play_spotify"],
    [pattern |-> Simple({<<"notification">>, <<"notif">>, <<"alert">>,
                         <<"update">>, <<"miss">>, <<"inbox">>, <<"read">>,
                         <<"check">>, <<"catch", "up">>, <<"show", "me">>,
                         <<"what", "did">>, <<"anything", "new">>,
                         <<"what's", "new">>, <<"what", "s", "new">>}),
     action |-> "get_notifications"]
>>

NoAction == "None"

\* phrase occupies words i .. i + Len(phrase) - 1 of text t
PhraseAt(t, i, phrase) ==
    /\ i >= 1
    /\ i + Len(phrase) - 1 <= Len(t)
    /\ \A k \in 1..Len(phrase) : t[i + k - 1] = phrase[k]

\* number of characters between the end of word i and the start of word j
GapChars(t, i, j) == SumLen(t, i + 1, j - 1) + (j - i)

\* pattern.search(message)
Search(pattern, t) ==
    \E i \in 1..Len(t) : \E h \in pattern.head :
        /\ PhraseAt(t, i, h)
        /\ \/ ~pattern.gapped
           \/ \E j \in (i + Len(h))..Len(t) :
                /\ GapChars(t, i + Len(h) - 1, j) <= GapMax
                /\ \/ pattern.anyTail /\ t[j] # ""
                   \/ \E b \in pattern.tail : PhraseAt(t, j, b)

\* a loop that does not stop at the first match
RECURSIVE MatchLast(_, _, _)
MatchLast(rules, k, t) ==
    IF k > Len(rules) THEN NoAction
    ELSE LET later == MatchLast(rules, k + 1, t)
         IN  IF later # NoAction THEN later
             ELSE IF Search(rules[k].pattern, t) THEN rules[k].action
             ELSE NoAction

RECURSIVE MatchFrom(_, _, _)
MatchFrom(rules, k, t) ==
    IF k > Len(rules) THEN NoAction
    ELSE IF Search(rules[k].pattern, t) THEN rules[k].action
    ELSE MatchFrom(rules, k + 1, t)

match_intent(t) == MatchFrom(INTENT_PATTERNS, 1, t)

GreetingPhrases ==
    {<<"hi">>, <<"hello">>, <<"hey">>, <<"sup">>, <<"what", "can", "you", "do">>,
     <<"help">>, <<"capabilities">>, <<"commands">>, <<"menu">>, <<"start">>}

\* the greeting pattern anchored at both ends
is_greeting_whole(t) == LStrip(t, {""}) \in GreetingPhrases

\* ^\s*(hi|hello|...)\b
is_greeting(t) ==
    \E g \in GreetingPhrases : PhraseAt(LStrip(t, {""}), 1, g)

\* the message text taken as it was sent
StripTextKept(t) == t

\* str.strip() of a message text
StripText(t) == StripSet(t, {""})

(***************************************************************************)
(* Completion texts and json.loads.  The parser covers the JSON that can    *)
(* be written with the characters of Chars: objects of at most one member,  *)
(* arrays of at most one element, strings and integers.  It yields the      *)
(* kind of the parsed value and its canonical form (whitespace outside      *)
(* strings removed).                                                        *)
(***************************************************************************)
WS == {" ", "\n"}

\* the backquote character, which a TLA+ string cannot hold
Tick == "BACKQUOTE"

Failed == [ok |-> FALSE, pos |-> 0, kind |-> "error", canon |-> <<>>]

Parsed(kind, canon, pos) ==
    [ok |-> TRUE, pos |-> pos, kind |-> kind, canon |-> canon]

RECURSIVE SkipWS(_, _)
SkipWS(s, i) == IF i <= Len(s) /\ s[i] \in WS THEN SkipWS(s, i + 1) ELSE i

\* index of the quote closing the string opened before i, 0 when none
RECURSIVE StringEnd(_, _)
StringEnd(s, i) ==
    IF i > Len(s) \/ s[i] = "\n" THEN 0
    ELSE IF s[i] = "\"" THEN i
    ELSE StringEnd(s, i + 1)

RECURSIVE DigitsEnd(_, _)
DigitsEnd(s, i) == IF i <= Len(s) /\ s[i] = "1" THEN DigitsEnd(s, i + 1) ELSE i

ParseString(s, i) ==
    IF i > Len(s) \/ s[i] # "\"" THEN Failed
    ELSE LET e == StringEnd(s, i + 1)
         IN  IF e = 0 THEN Failed
             ELSE Parsed("string", SubSeq(s, i, e), e + 1)

RECURSIVE ParseValue(_, _)
ParseValue(s, i0) ==
    LET i == SkipWS(s, i0) IN
    IF i > Len(s) THEN Failed
    ELSE IF s[i] = "\"" THEN ParseString(s, i)
    ELSE IF s[i] = "1" THEN
        LET e == DigitsEnd(s, i) IN Parsed("number", SubSeq(s, i, e - 1), e)
    ELSE IF s[i] = "[" THEN
        LET j == SkipWS(s, i + 1) IN
        IF j <= Len(s) /\ s[j] = "]" THEN Parsed("array", <<"[", "]">>, j + 1)
        ELSE LET v == ParseValue(s, j)
                 k == SkipWS(s, v.pos)
             IN  IF v.ok /\ k <= Len(s) /\ s[k] = "]"
                 THEN Parsed("array", <<"[">> \o v.canon \o <<"]">>, k + 1)
                 ELSE Failed
    ELSE IF s[i] = "{" THEN
        LET j == SkipWS(s, i + 1) IN
        IF j <= Len(s) /\ s[j] = "}" THEN Parsed("object", <<"{", "}">>, j + 1)
        ELSE LET key == ParseString(s, j)
                 c   == SkipWS(s, key.pos)
             IN  IF ~key.ok \/ c > Len(s) \/ s[c] # ":" THEN Failed
                 ELSE LET v == ParseValue(s, c + 1)
                          k == SkipWS(s, v.pos)
                      IN  IF v.ok /\ k <= Len(s) /\ s[k] = "}"
                          THEN Parsed("object",
                                      <<"{">> \o key.canon \o <<":">> \o v.canon
                                              \o <<"}">>,
                                      k + 1)
                          ELSE Failed
    ELSE Failed

\* json.loads(s): the value, or Failed for json.JSONDecodeError
json_loads(s) ==
    LET v == ParseValue(s, 1)
    IN  IF v.ok /\ SkipWS(s, v.pos) > Len(s) THEN v ELSE Failed

StartsWith(s, prefix) ==
    Len(s) >= Len(prefix) /\ SubSeq(s, 1, Len(prefix)) = prefix

\* the fences stripped, the language tag kept
CleanCompletionKeepTag(raw) == StripSet(StripSet(raw, {Tick}), WS)

\* lines 213-215: strip markdown fences and a leading language tag
CleanCompletion(raw) ==
    LET clean == StripSet(StripSet(raw, {Tick}), WS)
    IN  IF StartsWith(clean, <<"j", "s", "o", "n">>)
        THEN StripSet(SubSeq(clean, 5, Len(clean)), WS)
        ELSE clean

Fence == <<Tick, Tick, Tick>>

Prefixes ==
    {<<>>, Fence, Fence \o <<"j", "s", "o", "n", "\n">>,
     <<"j", "s", "o", "n", " ">>, <<" ">>}

Bodies ==
    {<<>>,
     <<"{", "}">>,
     <<"{", "\"", "a", "\"", ":", " ", "1", "}">>,
     <<"{", "\"", "a", "\"", ":">>,
     <<"h", "i">>,
     <<"1">>,
     <<"[", "1", "]">>,
     <<"\"", "a", "\"">>}

Suffixes == {<<>>, <<"\n">> \o Fence}

RawTexts == {p \o b \o x : p \in Prefixes, b \in Bodies, x \in Suffixes}

(***************************************************************************)
(* The completion service.  An answer to a POST is a failure (transport     *)
(* error, timeout, non-2xx status, a body that is not JSON, a JSON body     *)
(* that is not a mapping) or a mapping from keys to generated text.         *)
(***************************************************************************)
LLMFailures == {"transport", "timeout", "status", "notjson", "notdict"}

NoPayload == [k \in {} |-> <<>>]

NoAnswer == [asked |-> "none", kind |-> "none", payload |-> NoPayload]

Answer(asked, kind, p) == [asked |-> asked, kind |-> kind, payload |-> p]

Only(key, text) == [k \in {key} |-> text]

EmptyContentThen(text) ==
    [k \in {"content", "response"} |-> IF k = "content" THEN <<>> ELSE text]

\* every text under `content`; the plain bodies under the other shapes too
Payloads(texts, plain) ==
    {Only("content", t) : t \in texts}
        \cup {Only("response", t) : t \in plain}
        \cup {Only("choices", t) : t \in plain}
        \cup {EmptyContentThen(t) : t \in plain}

Answers(asked, texts, plain) ==
    {Answer(asked, f, NoPayload) : f \in LLMFailures}
        \cup {Answer(asked, "ok", p) : p \in Payloads(texts, plain)}

Emoji == "EMOJI"

ChatTexts == {<<>>, <<"o", "k">>, <<" ", "o", "k", " ", Emoji, "\n">>}

Get(p, key) == IF key \in DOMAIN p THEN p[key] ELSE <<>>

\* (payload.get("content") or payload.get("response") or "").strip()
CompletionText(p) ==
    StripSet(IF Get(p, "content") # <<>> THEN Get(p, "content")
             ELSE Get(p, "response"),
             WS)

(***************************************************************************)
(* Parameter extraction.                                                    *)
(***************************************************************************)
PARAM_PROMPTS ==
    [a \in {"read_text_messages", "read_email_summary", "add_calendar_reminder",
            "add_note", "send_sms", "send_email", "set_alarm", "play_spotify",
            "get_notifications"} |->
        IF a = "get_notifications" THEN "None" ELSE "prompt:" \o a]

\* a table with a template for every action
PromptTemplateAlways(a) == "prompt:" \o a

\* PARAM_PROMPTS.get(action)
PromptTemplate(a) == IF a \in DOMAIN PARAM_PROMPTS THEN PARAM_PROMPTS[a] ELSE "None"

Value(kind, canon) == [kind |-> kind, canon |-> canon]

EmptyParams == Value("object", <<"{", "}">>)

NoParams == Value("absent", <<>>)

Returned(v) == [raised |-> FALSE, value |-> v]

Raised == [raised |-> TRUE, value |-> NoParams]

\* extract_params catching json.JSONDecodeError only
ExtractResultNarrowCatch(answer) ==
    IF answer.kind = "notjson" THEN Returned(EmptyParams)
    ELSE IF answer.kind # "ok" THEN Raised
    ELSE LET v == json_loads(CleanCompletion(CompletionText(answer.payload)))
         IN  IF v.ok THEN Returned(Value(v.kind, v.canon))
             ELSE Returned(EmptyParams)

\* lines 189-224: what extract_params makes of the completion service's answer
ExtractResult(answer) ==
    IF answer.kind # "ok" THEN Returned(EmptyParams)
    ELSE LET v == json_loads(CleanCompletion(CompletionText(answer.payload)))
         IN  IF v.ok THEN Returned(Value(v.kind, v.canon))
             ELSE Returned(EmptyParams)

(***************************************************************************)
(* Conversational fallback.                                                 *)
(***************************************************************************)
CAPABILITIES_TEXT == <<"Hi! I'm Sepher. Here's what I can do: ...">>

APOLOGY ==
    <<"Sorry, I didn't understand that. Try saying 'help' to see what I can do.">>

strip_emojis(text) == StripSet(SelectSeq(text, LAMBDA c : c # Emoji), WS)

\* lines 245-259: query_llm_chat's result for an answer
ChatResult(answer) ==
    IF answer.kind # "ok" THEN [raised |-> TRUE, reply |-> <<>>]
    ELSE [raised |-> FALSE, reply |-> strip_emojis(CompletionText(answer.payload))]


(***************************************************************************)
(* The Android forwarder.                                                   *)
(***************************************************************************)
HostA == <<"http://192.168.1.5:8081">>

HostB == <<"https://relay.example">>

Configs ==
    {[local |-> HostA, remote |-> HostB],
     [local |-> HostA, remote |-> HostA],
     [local |-> <<" ">>, remote |-> HostB \o <<"/">>],
     [local |-> <<>>, remote |-> <<>>]}

action_aliases ==
    [a \in {"add_note", "add_calendar_reminder", "read_text_messages",
            "read_email_summary"} |->
        CASE a = "add_note" -> "create_note"
          [] a = "add_calendar_reminder" -> "add_calendar"
          [] a = "read_text_messages" -> "summarize_sms"
          [] a = "read_email_summary" -> "summarize_email"]

\* a forwarder that forgets the rename table
normalized_action_unrenamed(a) == a

\* action_aliases.get(action, action)
normalized_action(a) ==
    IF a \in DOMAIN action_aliases THEN action_aliases[a] ELSE a

build_command_url(base) == RStrip(base, {"/"}) \o <<"/command">>

Candidate(mode, base) == [mode |-> mode, url |-> build_command_url(base)]

\* the candidate list with the remote endpoint ahead of the local one
CandidateUrlsRemoteFirst(cfg) ==
    (IF /\ StripSet(cfg.remote, {" "}) # <<>>
        /\ StripSet(cfg.remote, {" "}) # StripSet(cfg.local, {" "})
     THEN <<Candidate("remote", cfg.remote)>> ELSE <<>>)
    \o
    (IF StripSet(cfg.local, {" "}) # <<>>
     THEN <<Candidate("local", cfg.local)>> ELSE <<>>)

\* lines 282-286
CandidateUrls(cfg) ==
    (IF StripSet(cfg.local, {" "}) # <<>>
     THEN <<Candidate("local", cfg.local)>> ELSE <<>>)
    \o
    (IF /\ StripSet(cfg.remote, {" "}) # <<>>
        /\ StripSet(cfg.remote, {" "}) # StripSet(cfg.local, {" "})
     THEN <<Candidate("remote", cfg.remote)>> ELSE <<>>)

NoData == [k \in {} |-> <<>>]

DeviceFailures == {"timeout", "status"}

DeviceMappings ==
    {[k \in {"status"} |-> <<"ok">>], [k \in {"_forwarded_via"} |-> <<"device">>]}

\* an answer of the device endpoint to one POST
DeviceAnswers ==
    {[kind |-> f, data |-> NoData] : f \in DeviceFailures \cup {"notjson", "list"}}
        \cup {[kind |-> "mapping", data |-> d] : d \in DeviceMappings}

\* lines 297-298 and 299: the POST, raise_for_status, response.json() and the
\* item assignment all went through
Served(ans) == ans.kind = "mapping"

\* the annotation naming the first candidate whoever served
AnnotateLocal(data, cand) ==
    [k \in DOMAIN data \cup {"_forwarded_via", "_forwarded_url"} |->
        IF k = "_forwarded_via" THEN <<"local">>
        ELSE IF k = "_forwarded_url" THEN cand.url
        ELSE data[k]]

\* lines 299-300
Annotate(data, cand) ==
    [k \in DOMAIN data \cup {"_forwarded_via", "_forwarded_url"} |->
        IF k = "_forwarded_via" THEN <<cand.mode>>
        ELSE IF k = "_forwarded_url" THEN cand.url
        ELSE data[k]]

NoResponse == [k \in {} |-> <<>>]

\* line 303
ErrorEntry(cand, ans) == [mode |-> cand.mode, url |-> cand.url, reason |-> ans.kind]

\* line 305: what the RuntimeError carries
Unreachable(err) == err

(***************************************************************************)
(* The request handler.                                                     *)
(***************************************************************************)
\* a check that only asks for an identity to be present
AuthorizedIfPresent(id) == id # ""

Authorized(id) == id \in AUTHORIZED_DISCORD_IDS

NoOutcome ==
    [status |-> 0, ok |-> FALSE, action |-> NoAction, reply |-> <<>>,
     params |-> NoParams, android_response |-> NoResponse,
     detail |-> "", errors |-> <<>>]

HttpError(status, detail, errors) ==
    [NoOutcome EXCEPT !.status = status, !.detail = detail, !.errors = errors]

ChatResponse(reply) ==
    [NoOutcome EXCEPT !.status = 200, !.ok = TRUE, !.action = "chat",
                      !.reply = reply]

TaskResponse(a, p, resp) ==
    [NoOutcome EXCEPT !.status = 200, !.ok = TRUE, !.action = a, !.params = p,
                      !.android_response = resp]

\* the fallback without its except clause
ChatOutcomeUncaught(answer) ==
    IF ChatResult(answer).raised
    THEN HttpError(500, "Internal Server Error", <<>>)
    ELSE ChatResponse(ChatResult(answer).reply)

\* lines 356-360: the reply, or the apology when query_llm_chat raised
ChatOutcome(answer) ==
    ChatResponse(IF ChatResult(answer).raised THEN APOLOGY
                 ELSE ChatResult(answer).reply)

\* a forwarder failure absorbed like a fallback failure
ForwardFailureAbsorbed(err) == ChatResponse(APOLOGY)

\* lines 305 and 373-374: the RuntimeError becomes a 502
ForwardFailure(err) ==
    HttpError(502,
              IF err = <<>>
              THEN "Android unreachable: No Android URL configured"
              ELSE "Android unreachable",
              Unreachable(err))

NoCommand == [action |-> NoAction, params |-> NoParams]

(***************************************************************************)
(* The chat connector (discord_bot.py).  A Discord message is its author,  *)
(* whether it was sent in a guild channel, whether the bot is among its    *)
(* mentions, and its content, a message text in which the bot's mention    *)
(* token is a word.  Texts shown to the user are sequences of strings, the *)
(* text being their concatenation.                                         *)
(***************************************************************************)
BOT_AUTHORIZED_DISCORD_IDS == {"1001"}

DISCORD_MESSAGE_LIMIT == 2000

TruncatedTail == 20

BotUser == "9000"

Mention == "<@9000>"

BotVocabulary == {Mention, "hi", ""}

BotContents == UNION {[1..n -> BotVocabulary] : n \in 0..MaxWords}

\* a message whose content has the mention token has the bot in its mentions
BotMessages ==
    {m \in [author : {BotUser, "1001", "2002"}, guild : BOOLEAN,
            mentioned : BOOLEAN, content : BotContents] :
        (\E i \in DOMAIN m.content : m.content[i] = Mention) => m.mentioned}

NoMessage ==
    [author |-> "", guild |-> FALSE, mentioned |-> FALSE, content |-> <<>>]

\* lines 56-59: the mention token is removed, and the text stripped, in guild
\* channels only
ForwardContent(m) ==
    IF m.guild
    THEN StripText([i \in DOMAIN m.content |->
                       IF m.content[i] = Mention THEN "" ELSE m.content[i]])
    ELSE m.content

\* lines 45-61: the message gets past every early return
Answered(m) ==
    /\ m.author # BotUser
    /\ ~(m.guild /\ ~m.mentioned)
    /\ m.author \in BOT_AUTHORIZED_DISCORD_IDS
    /\ ForwardContent(m) \notin {<<>>, <<"">>}

PROCESSING == <<"Processing...">>

Chunk == "xxxxxxxxxxxxxxxxxxxx"

\* a reply of 2020 characters
LongReply == [i \in 1..101 |-> Chunk]

\* what the POST to /task comes to: an exception of httpx, a body that is
\* not JSON, JSON that is not a mapping, or the mapping of a response
TaskData ==
    {ChatResponse(r) : r \in {<<>>, <<"o", "k">>, LongReply}}
        \cup {TaskResponse("set_alarm", EmptyParams, r) :
                 r \in {NoResponse,
                        Annotate([k \in {"status"} |-> <<"ok">>],
                                 Candidate("local", HostA))}}
        \cup {[NoOutcome EXCEPT !.status = 200]}

TaskResults ==
    {[kind |-> k, code |-> "", data |-> NoOutcome] :
        k \in {"timeout", "transport", "notjson", "list"}}
        \cup {[kind |-> "status", code |-> c, data |-> NoOutcome] :
                 c \in {"400", "401", "500", "502"}}
        \cup {[kind |-> "mapping", code |-> "200", data |-> d] : d \in TaskData}

NoResult == [kind |-> "none", code |-> "", data |-> NoOutcome]

\* the longest prefix of whole strings of a text within n characters
RECURSIVE TakeChars(_, _)
TakeChars(t, n) ==
    IF t = <<>> \/ Len(Head(t)) > n THEN <<>>
    ELSE <<Head(t)>> \o TakeChars(Tail(t), n - Len(Head(t)))

\* lines 37-39: the text that safe_edit puts in the placeholder
SafeText(content) ==
    LET stripped == StripSet(content, WS)
        text == IF stripped = <<>> THEN <<"No response">> ELSE stripped
    IN  IF SumLen(text, 1, Len(text)) > DISCORD_MESSAGE_LIMIT
        THEN TakeChars(text, DISCORD_MESSAGE_LIMIT - TruncatedTail)
                 \o <<"\n\n[truncated]">>
        ELSE text

\* lines 78-104: the text for a response mapping
ResponseText(data) ==
    IF ~data.ok THEN <<"Server error: ", "{data}">>
    ELSE IF data.action = "chat"
    THEN (IF data.reply = <<>> THEN <<"No response">> ELSE data.reply)
    ELSE <<"Completed: **", data.action, "**\n">> \o data.params.canon
             \o <<"\nPhone status: ">>
             \o (IF "status" \in DOMAIN data.android_response
                 THEN data.android_response["status"] ELSE <<"done">>)
             \o <<"\nReason: ">>
             \o (IF "reason" \in DOMAIN data.android_response
                 THEN data.android_response["reason"]
                 ELSE IF "message" \in DOMAIN data.android_response
                 THEN data.android_response["message"] ELSE <<"n/a">>)

\* lines 106-111: the text for an exception
ExceptionText(result) ==
    IF result.kind = "timeout"
    THEN <<"Timed out: server or phone did not respond in time">>
    ELSE IF result.kind = "status" THEN <<"HTTP error: ", result.code>>
    ELSE <<"Error: ", result.kind>>

BotIdle ==
    [pc |-> "idle", msg |-> NoMessage, content |-> <<>>, posted |-> <<>>,
     result |-> NoResult, edits |-> <<>>]

(***************************************************************************)
(* POST /command.  NoAction stands for a body without an action (or with   *)
(* null), "" for the empty string; params default to the empty mapping.    *)
(***************************************************************************)
CommandActions == {NoAction, "", "set_alarm", "add_note", "open_camera"}

CommandParams == {EmptyParams, Value("object", <<"{", "\"", "a", "\"", ":", "1", "}">>)}

\* a check for a missing action that lets the empty string through
ActionGivenNotNone(a) == a # NoAction

\* line 399: not command["action"]
ActionGiven(a) == a \notin {NoAction, ""}

\* line 407
CommandResponse(resp) ==
    [NoOutcome EXCEPT !.status = 200, !.ok = TRUE, !.android_response = resp]

\* lines 375-380 and 407: the body of the 200 response of either entry point
Forwarded(r, a, p, resp) ==
    IF r = "task" THEN TaskResponse(a, p, resp) ELSE CommandResponse(resp)

Init ==
    /\ config \in Configs
    /\ pc = "idle"
    /\ discord_id = ""
    /\ body = <<>>
    /\ message = <<>>
    /\ action = NoAction
    /\ params = NoParams
    /\ llm = NoAnswer
    /\ payload = NoCommand
    /\ urls = <<>>
    /\ idx = 0
    /\ last_error = <<>>
    /\ attempts = <<>>
    /\ outcome = NoOutcome
    /\ calls = <<>>
    /\ route = "none"
    /\ bot = BotIdle

\* a POST /task arrives: request.json()
Receive ==
    /\ pc = "idle"
    /\ \E id \in DiscordIds, m \in Messages :
        /\ discord_id' = id
        /\ body' = m
    /\ pc' = "auth"
    /\ route' = "task"
    /\ UNCHANGED <<bot, config, message, action, params, llm, payload, urls,
                   idx, last_error, attempts, outcome, calls>>

\* a POST /command arrives: request.json(), and line 395 reads the command
ReceiveCommand ==
    /\ pc = "idle"
    /\ \E id \in DiscordIds, a \in CommandActions, p \in CommandParams :
        /\ discord_id' = id
        /\ action' = a
        /\ params' = p
    /\ pc' = "auth"
    /\ route' = "command"
    /\ UNCHANGED <<bot, config, body, message, llm, payload, urls, idx,
                   last_error, attempts, outcome, calls>>

\* the response or the error is sent; nothing of the request is kept
Respond ==
    /\ pc = "done"
    /\ pc' = "idle"
    /\ discord_id' = ""
    /\ body' = <<>>
    /\ message' = <<>>
    /\ action' = NoAction
    /\ params' = NoParams
    /\ llm' = NoAnswer
    /\ payload' = NoCommand
    /\ urls' = <<>>
    /\ idx' = 0
    /\ last_error' = <<>>
    /\ attempts' = <<>>
    /\ outcome' = NoOutcome
    /\ calls' = <<>>
    /\ route' = "none"
    /\ UNCHANGED <<bot, config>>

Finish(result) ==
    /\ outcome' = result
    /\ pc' = "done"

\* lines 339 and 393: verify_discord_id(data.get("discord_id", ""))
Auth ==
    /\ pc = "auth"
    /\ IF Authorized(discord_id)
       THEN /\ pc' = IF route = "task" THEN "validate" ELSE "command"
            /\ UNCHANGED outcome
       ELSE Finish(HttpError(401, "Unauthorized", <<>>))
    /\ UNCHANGED <<bot, route, config, discord_id, body, message, action, params, llm,
                   payload, urls, idx, last_error, attempts, calls>>

\* lines 341-343
Validate ==
    /\ pc = "validate"
    /\ message' = StripText(body)
    /\ IF StripText(body) = <<>>
       THEN Finish(HttpError(400, "message is required", <<>>))
       ELSE pc' = "greeting" /\ UNCHANGED outcome
    /\ UNCHANGED <<bot, route, config, discord_id, body, action, params, llm, payload,
                   urls, idx, last_error, attempts, calls>>

\* lines 399-400
ValidateCommand ==
    /\ pc = "command"
    /\ IF ActionGiven(action)
       THEN pc' = "forward" /\ UNCHANGED outcome
       ELSE Finish(HttpError(400, "action is required", <<>>))
    /\ UNCHANGED <<bot, route, config, discord_id, body, message, action,
                   params, llm, payload, urls, idx, last_error, attempts,
                   calls>>

\* lines 348-349
Greeting ==
    /\ pc = "greeting"
    /\ calls' = Append(calls, "is_greeting")
    /\ IF is_greeting(message)
       THEN Finish(ChatResponse(CAPABILITIES_TEXT))
       ELSE pc' = "classify" /\ UNCHANGED outcome
    /\ UNCHANGED <<bot, route, config, discord_id, body, message, action, params, llm,
                   payload, urls, idx, last_error, attempts>>

\* lines 352-354
Classify ==
    /\ pc = "classify"
    /\ calls' = Append(calls, "match_intent")
    /\ action' = match_intent(message)
    /\ pc' = IF match_intent(message) = NoAction THEN "chat" ELSE "extract"
    /\ UNCHANGED <<bot, route, config, discord_id, body, message, params, llm, payload,
                   urls, idx, last_error, attempts, outcome>>

\* lines 354-360: the conversational fallback and its except clause
Chat ==
    /\ pc = "chat"
    /\ \E ans \in Answers("chat", ChatTexts, ChatTexts) :
        /\ llm' = ans
        /\ Finish(ChatOutcome(ans))
    /\ calls' = calls \o <<"query_llm_chat", "completion">>
    /\ UNCHANGED <<bot, route, config, discord_id, body, message, action, params, payload,
                   urls, idx, last_error, attempts>>

\* line 365: params = await extract_params(action, message)
Extract ==
    /\ pc = "extract"
    /\ IF PromptTemplate(action) = "None"
       THEN /\ params' = EmptyParams
            /\ pc' = "forward"
            /\ calls' = Append(calls, "extract_params")
            /\ UNCHANGED <<llm, outcome>>
       ELSE \E ans \in Answers("extract", RawTexts, Bodies) :
            /\ llm' = ans
            /\ calls' = calls \o <<"extract_params", "completion">>
            /\ IF ExtractResult(ans).raised
               THEN /\ Finish(HttpError(500, "Internal Server Error", <<>>))
                    /\ UNCHANGED params
               ELSE /\ params' = ExtractResult(ans).value
                    /\ pc' = "forward"
                    /\ UNCHANGED outcome
    /\ UNCHANGED <<bot, route, config, discord_id, body, message, action, payload, urls,
                   idx, last_error, attempts>>

\* lines 367, 372, 403 and 263-288: the command is built and send_to_android
\* starts
ForwardStart ==
    /\ pc = "forward"
    /\ calls' = Append(calls, "send_to_android")
    /\ payload' = [action |-> normalized_action(action), params |-> params]
    /\ urls' = CandidateUrls(config)
    /\ idx' = 1
    /\ last_error' = <<>>
    /\ llm' = NoAnswer
    /\ pc' = "attempt"
    /\ UNCHANGED <<bot, route, config, discord_id, body, message, action, params,
                   attempts, outcome>>

\* lines 290-303: one turn of the loop over the candidates
Attempt ==
    /\ pc = "attempt"
    /\ idx <= Len(urls)
    /\ \E ans \in DeviceAnswers :
        /\ attempts' = Append(attempts, [mode |-> urls[idx].mode,
                                         url |-> urls[idx].url,
                                         payload |-> payload,
                                         answer |-> ans])
        /\ IF Served(ans)
           THEN /\ Finish(Forwarded(route, action, params,
                                    Annotate(ans.data, urls[idx])))
                /\ UNCHANGED <<idx, last_error>>
           ELSE /\ last_error' = <<ErrorEntry(urls[idx], ans)>>
                /\ idx' = idx + 1
                /\ UNCHANGED <<pc, outcome>>
    /\ calls' = Append(calls, "device")
    /\ UNCHANGED <<bot, route, config, discord_id, body, message, action, params, llm,
                   payload, urls>>

\* an orchestrator that calls the forwarder again when it failed
ForwardFailRetry ==
    /\ pc = "attempt"
    /\ idx > Len(urls)
    /\ pc' = "forward"
    /\ UNCHANGED <<bot, route, config, discord_id, body, message, action,
                   params, llm, payload, urls, idx, last_error, attempts,
                   outcome, calls>>

\* lines 305, 373-374 and 404-405: every candidate failed, or there was none
ForwardFail ==
    /\ pc = "attempt"
    /\ idx > Len(urls)
    /\ Finish(ForwardFailure(last_error))
    /\ UNCHANGED <<bot, route, config, discord_id, body, message, action, params, llm,
                   payload, urls, idx, last_error, attempts, calls>>

Next ==
    \/ Receive
    \/ ReceiveCommand
    \/ Auth
    \/ Validate
    \/ ValidateCommand
    \/ Greeting
    \/ Classify
    \/ Chat
    \/ Extract
    \/ ForwardStart
    \/ Attempt
    \/ ForwardFail
    \/ Respond

Spec == Init /\ [][Next]_vars

(***************************************************************************)
(* The chat connector's on_message.                                        *)
(***************************************************************************)
serverVars ==
    <<config, pc, discord_id, body, message, action, params, llm, payload,
      urls, idx, last_error, attempts, outcome, calls, route>>

\* lines 43-64: a message arrives; it is ignored, or the placeholder is posted
OnMessage ==
    /\ bot.pc = "idle"
    /\ \E m \in BotMessages :
        bot' = IF Answered(m)
               THEN [BotIdle EXCEPT !.pc = "posting", !.msg = m,
                                    !.content = ForwardContent(m),
                                    !.posted = <<PROCESSING>>]
               ELSE [BotIdle EXCEPT !.pc = "done", !.msg = m]
    /\ UNCHANGED serverVars

\* lines 66-76: the POST to /task, raise_for_status and response.json()
PostTask ==
    /\ bot.pc = "posting"
    /\ \E r \in TaskResults :
        bot' = [bot EXCEPT !.result = r,
                           !.pc = IF r.kind \in {"mapping", "list"}
                                  THEN "handle" ELSE "except"]
    /\ UNCHANGED serverVars

\* lines 78-104: the response is shown; data.get raises when data is no mapping
HandleData ==
    /\ bot.pc = "handle"
    /\ bot' = IF bot.result.kind = "list"
              THEN [bot EXCEPT !.pc = "except"]
              ELSE [bot EXCEPT !.pc = "done",
                               !.edits = Append(@, SafeText(ResponseText(
                                                       bot.result.data)))]
    /\ UNCHANGED serverVars

\* the handler without its last except clause
ExceptEditNarrow ==
    /\ bot.pc = "except"
    /\ bot' = IF bot.result.kind \in {"timeout", "status"}
              THEN [bot EXCEPT !.pc = "done",
                               !.edits = Append(@, SafeText(ExceptionText(
                                                       bot.result)))]
              ELSE [bot EXCEPT !.pc = "done"]
    /\ UNCHANGED serverVars

\* lines 106-111: the three except clauses
ExceptEdit ==
    /\ bot.pc = "except"
    /\ bot' = [bot EXCEPT !.pc = "done",
                          !.edits = Append(@, SafeText(ExceptionText(
                                                  bot.result)))]
    /\ UNCHANGED serverVars

\* on_message returns
BotReturn ==
    /\ bot.pc = "done"
    /\ bot' = BotIdle
    /\ UNCHANGED serverVars

BotNext ==
    \/ OnMessage
    \/ PostTask
    \/ HandleData
    \/ ExceptEdit
    \/ BotReturn

BotSpec == Init /\ [][BotNext]_vars

\* the steps of a handler between the arrival of its request and its response
HandlerStep ==
    \/ Auth
    \/ Validate
    \/ ValidateCommand
    \/ Greeting
    \/ Classify
    \/ Chat
    \/ Extract
    \/ ForwardStart
    \/ Attempt
    \/ ForwardFail
    \/ Respond

\* the event loop resumes a handler whenever it can go on, and every call to
\* the completion service or to a device endpoint returns or fails (each has
\* a timeout: lines 190, 245 and 289); requests need not keep arriving
FairSpec == Spec /\ WF_vars(HandlerStep)

(***************************************************************************)
(* Properties.                                                              *)
(***************************************************************************)
Range(s) == {s[i] : i \in DOMAIN s}

InFlight == pc # "idle"

\* the text starts with a greeting/help token
StartsWithGreetingToken(t) ==
    /\ t # <<>>
    /\ \/ t[1] \in {"hi", "hello", "hey", "sup", "help", "capabilities",
                    "commands", "menu", "start"}
       \/ Len(t) >= 4 /\ SubSeq(t, 1, 4) = <<"what", "can", "you", "do">>

\* the rules of a list that match a text, and the action of the lowest one
Matching(rules, t) == {k \in 1..Len(rules) : Search(rules[k].pattern, t)}

LowestMatch(rules, t) ==
    LET M == Matching(rules, t)
    IN  IF M = {} THEN NoAction
        ELSE rules[CHOOSE k \in M : \A j \in M : k <= j].action

\* rule lists: the program's, the empty one, and every ordered pair of rules
RuleLists ==
    {INTENT_PATTERNS, <<>>}
        \cup {<<INTENT_PATTERNS[i], INTENT_PATTERNS[j]>> :
                i \in 1..Len(INTENT_PATTERNS), j \in 1..Len(INTENT_PATTERNS)}

\* C1: a /task request whose identity is not in the allow-list ends in the
\* 401 Unauthorized signal and nothing else happens for it: no greeting
\* check, no classifier, no extractor, no completion call, no forwarder,
\* whatever the message text is.
C1_UnauthorizedStopsAtAuth ==
    (InFlight /\ route = "task" /\ discord_id \notin AUTHORIZED_DISCORD_IDS) =>
        /\ pc \in {"auth", "done"}
        /\ calls = <<>>
        /\ llm = NoAnswer
        /\ attempts = <<>>
        /\ action = NoAction
        /\ pc = "done" => outcome = HttpError(401, "Unauthorized", <<>>)

C1_Witness ==
    /\ pc = "done"
    /\ discord_id = "2002"
    /\ outcome.status = 401
    /\ body = <<"hi", "read", "email">>

\* C2: an authorized non-empty text that starts with a greeting token gets
\* {ok, action "chat", reply capability text}, also when it matches action
\* rules, and the request ends there: no classification, no extraction,
\* no completion call, nothing forwarded.
C2_GreetingFirst ==
    (InFlight /\ discord_id \in AUTHORIZED_DISCORD_IDS
              /\ StartsWithGreetingToken(StripText(body))) =>
        /\ pc \in {"auth", "validate", "greeting", "done"}
        /\ attempts = <<>>
        /\ llm = NoAnswer
        /\ Range(calls) \subseteq {"is_greeting"}
        /\ pc = "done" => outcome = ChatResponse(CAPABILITIES_TEXT)

C2_Witness ==
    /\ pc = "done"
    /\ discord_id \in AUTHORIZED_DISCORD_IDS
    /\ StartsWithGreetingToken(StripText(body))
    /\ Matching(INTENT_PATTERNS, StripText(body)) # {}
    /\ outcome.reply = CAPABILITIES_TEXT
    /\ outcome.action = "chat"

\* C3: classification is first-match-wins: the classifier's result is the
\* action of the lowest-index rule that matches the text, for the program's
\* rule list and for every other ordered rule list, and it is Unclassified
\* exactly when no rule matches.
C3_FirstMatchWins ==
    (pc \in {"chat", "extract"}) =>
        /\ action = LowestMatch(INTENT_PATTERNS, message)
        /\ action = NoAction <=> Matching(INTENT_PATTERNS, message) = {}
        /\ \A rules \in RuleLists :
              MatchFrom(rules, 1, message) = LowestMatch(rules, message)

C3_Witness ==
    /\ pc = "extract"
    /\ \E i, j \in Matching(INTENT_PATTERNS, message) :
          /\ i < j
          /\ INTENT_PATTERNS[i].action # INTENT_PATTERNS[j].action
          /\ action = INTENT_PATTERNS[i].action
          /\ \A k \in Matching(INTENT_PATTERNS, message) : i <= k

\* C4: an authorized non-empty text that is no greeting and matches no rule
\* always gets {ok, action "chat", reply}; when the completion call fails in
\* any way the reply is the static apology and no error is surfaced; the
\* forwarder is never invoked.
C4_FallbackNeverFails ==
    (InFlight /\ discord_id \in AUTHORIZED_DISCORD_IDS
              /\ StripText(body) # <<>>
              /\ ~StartsWithGreetingToken(StripText(body))
              /\ Matching(INTENT_PATTERNS, StripText(body)) = {}) =>
        /\ pc \in {"auth", "validate", "greeting", "classify", "chat", "done"}
        /\ attempts = <<>>
        /\ "send_to_android" \notin Range(calls)
        /\ "extract_params" \notin Range(calls)
        /\ pc = "done" =>
              /\ outcome.status = 200
              /\ outcome.ok
              /\ outcome.action = "chat"
              /\ outcome.errors = <<>>
              /\ llm.asked = "chat"
              /\ llm.kind \in LLMFailures => outcome.reply = APOLOGY

C4_Witness ==
    /\ pc = "done"
    /\ llm.asked = "chat"
    /\ llm.kind = "timeout"
    /\ outcome.ok
    /\ outcome.reply = APOLOGY

\* the forwarder was called and came back with / without a served response
ForwarderSucceeded ==
    /\ attempts # <<>>
    /\ attempts[Len(attempts)].answer.kind = "mapping"

ForwarderFailed ==
    /\ "send_to_android" \in Range(calls)
    /\ pc = "done"
    /\ ~ForwarderSucceeded

\* C5: on the action path a forwarder failure is surfaced as the 502 error
\* signal, never as a chat-style reply and never with ok:true; and an
\* ok:true response carrying the action is returned only after the
\* forwarder succeeded.
C5_ForwarderFailureSurfaced ==
    /\ ForwarderFailed =>
          /\ outcome.status = 502
          /\ ~outcome.ok
          /\ outcome.reply = <<>>
          /\ outcome.action = NoAction
    /\ (pc = "done" /\ route = "task" /\ outcome.ok
                     /\ outcome.action # "chat") =>
          /\ outcome.action = action
          /\ ForwarderSucceeded

C5_Witness ==
    /\ ForwarderFailed
    /\ Len(attempts) = 2
    /\ outcome.status = 502

\* C6: when the first candidate fails with a transport or status failure
\* and the second succeeds, forward returns the second candidate's response
\* payload annotated with the second candidate's identifier.
C6_FallbackToSecond ==
    (/\ pc = "done"
     /\ Len(attempts) = 2
     /\ attempts[1].answer.kind \in DeviceFailures
     /\ attempts[2].answer.kind = "mapping") =>
        /\ outcome.status = 200
        /\ attempts[2].mode = "remote"
        /\ outcome.android_response["_forwarded_via"] = <<attempts[2].mode>>
        /\ outcome.android_response["_forwarded_url"] = attempts[2].url
        /\ attempts[2].url # attempts[1].url
        /\ \A k \in DOMAIN attempts[2].answer.data
                        \ {"_forwarded_via", "_forwarded_url"} :
              outcome.android_response[k] = attempts[2].answer.data[k]

C6_Witness ==
    /\ pc = "done"
    /\ Len(attempts) = 2
    /\ attempts[1].answer.kind = "timeout"
    /\ attempts[2].answer.data = [k \in {"status"} |-> <<"ok">>]
    /\ outcome.android_response["_forwarded_via"] = <<"remote">>
    /\ outcome.android_response["status"] = <<"ok">>

\* C7: when every candidate fails, the error carries every attempted
\* candidate with its failure reason (with two failing candidates, both
\* reasons).
C7_AllFailuresListed ==
    (pc = "done" /\ outcome.status = 502) =>
        \A i \in DOMAIN attempts :
            \E e \in Range(outcome.errors) :
                /\ e.mode = attempts[i].mode
                /\ e.url = attempts[i].url
                /\ e.reason = attempts[i].answer.kind

\* the device-facing name of a public action name
DeviceName(a) ==
    CASE a = "add_note" -> "create_note"
      [] a = "add_calendar_reminder" -> "add_calendar"
      [] a = "read_text_messages" -> "summarize_sms"
      [] a = "read_email_summary" -> "summarize_email"
      [] OTHER -> a

ActionNames ==
    DOMAIN PARAM_PROMPTS
        \cup {"create_note", "add_calendar", "summarize_sms", "summarize_email",
              "chat", "unknown_action"}

\* C8: the rename table is applied once and only to the action: the payload
\* sent to every candidate has the device-facing name of the command's
\* action (the action itself when the table has no entry for it) and the
\* command's params unchanged; renaming a renamed action changes nothing.
C8_RenameOnlyAction ==
    /\ \A i \in DOMAIN attempts :
          /\ attempts[i].payload.action = DeviceName(action)
          /\ attempts[i].payload.params = params
          /\ normalized_action(attempts[i].payload.action)
                = attempts[i].payload.action
    /\ \A a \in ActionNames :
          /\ normalized_action(a) = DeviceName(a)
          /\ normalized_action(normalized_action(a)) = normalized_action(a)

C8_Witness ==
    /\ pc = "done"
    /\ Len(attempts) = 2
    /\ action = "read_email_summary"
    /\ attempts[1].payload.action = "summarize_email"
    /\ attempts[2].payload.action = "summarize_email"
    /\ params.kind = "object"
    /\ params # EmptyParams
    /\ attempts[2].payload.params = params

\* the completion text does not parse as JSON once it is cleaned
CompletionUnparsable(answer) ==
    ~json_loads(CleanCompletion(CompletionText(answer.payload))).ok

\* C9: extract never raises: whatever the completion call does (transport
\* failure, timeout, non-2xx status, non-JSON body, completion text that
\* fails JSON parsing) it returns an empty mapping and the orchestrator
\* goes on to the forwarder.
C9_ExtractNeverRaises ==
    /\ "extract_params" \in Range(calls) =>
          /\ outcome.status # 500
          /\ pc \in {"forward", "attempt", "done"}
          /\ pc = "done" => "send_to_android" \in Range(calls)
    /\ (/\ llm.asked = "extract"
        /\ llm.kind \in LLMFailures \/ CompletionUnparsable(llm)) =>
          /\ pc = "forward"
          /\ params = EmptyParams
          /\ outcome = NoOutcome

C9_Witness ==
    /\ pc = "forward"
    /\ llm.asked = "extract"
    /\ llm.kind = "status"
    /\ params = EmptyParams

\* the three kinds of malformed completion output
Truncated == <<"{", "\"", "a", "\"", ":">>

Prose == <<"h", "i">>

FencedJson(raw) ==
    /\ StartsWith(raw, Fence)
    /\ \E b \in Bodies, x \in Suffixes, tag \in {<<>>, <<"j", "s", "o", "n", "\n">>} :
          /\ json_loads(b).kind = "object"
          /\ raw = StripSet(Fence \o tag \o b \o x, WS)

\* C10 as stated: malformed completion output of any of the three kinds
\* (non-JSON, truncated JSON, markdown-fenced JSON) always yields an empty
\* mapping.
C10_MalformedYieldsEmpty ==
    (/\ llm.asked = "extract"
     /\ llm.kind = "ok"
     /\ \/ CompletionText(llm.payload) = Prose
        \/ CompletionText(llm.payload) = Truncated
        \/ FencedJson(CompletionText(llm.payload))) =>
        /\ pc = "forward"
        /\ params = EmptyParams

\* what json.loads makes of a text, as a parameter value
Loaded(b) ==
    IF json_loads(b).ok THEN Value(json_loads(b).kind, json_loads(b).canon)
    ELSE EmptyParams

\* C10 amended: malformed completion output never raises; a text that is
\* not JSON or is truncated JSON, fenced or not, yields an empty mapping,
\* and markdown-fenced JSON (with or without the json tag) is unwrapped and
\* yields the parsed JSON value.
C10_FencedJsonIsUnwrapped ==
    (llm.asked = "extract" /\ llm.kind = "ok") =>
        /\ pc = "forward"
        /\ outcome = NoOutcome
        /\ LET raw == CompletionText(llm.payload)
           IN  \A p \in Prefixes, b \in Bodies, x \in Suffixes :
                  raw = StripSet(p \o b \o x, WS) => params = Loaded(b)

C10_Witness ==
    /\ pc = "forward"
    /\ llm.asked = "extract"
    /\ llm.kind = "ok"
    /\ FencedJson(CompletionText(llm.payload))
    /\ params.kind = "object"
    /\ params # EmptyParams

\* how many times a component appears in the log of calls
CountOf(log, x) == Cardinality({i \in DOMAIN log : log[i] = x})

\* C11: an authorized /task request whose text is empty or only whitespace
\* ends in the 400 "message is required" signal before anything else runs:
\* no greeting check, no classifier, no extractor, no completion call, no
\* forwarder.
C11_EmptyTextRejected ==
    (/\ InFlight
     /\ route = "task"
     /\ discord_id \in AUTHORIZED_DISCORD_IDS
     /\ \A i \in DOMAIN body : body[i] = "") =>
        /\ pc \in {"auth", "validate", "done"}
        /\ calls = <<>>
        /\ llm = NoAnswer
        /\ attempts = <<>>
        /\ action = NoAction
        /\ pc = "done" => outcome = HttpError(400, "message is required", <<>>)

C11_Witness ==
    /\ pc = "done"
    /\ route = "task"
    /\ discord_id = "1001"
    /\ body = <<"", "">>
    /\ outcome.status = 400
    /\ calls = <<>>

\* C12: an authorized /command request never runs the greeting check, the
\* classifier, the extractor or the completion service; without an action
\* (missing, null or empty) it ends in the 400 signal and the forwarder is
\* not called; otherwise the forwarder is called exactly once with the
\* given action and params, its response is returned under ok:true, and
\* its failure ends in the 502 signal.
C12_RawCommandBypasses ==
    (InFlight /\ route = "command" /\ discord_id \in AUTHORIZED_DISCORD_IDS) =>
        /\ Range(calls) \subseteq {"send_to_android", "device"}
        /\ llm = NoAnswer
        /\ CountOf(calls, "send_to_android") <= 1
        /\ action \in {NoAction, ""} =>
              /\ pc \in {"auth", "command", "done"}
              /\ calls = <<>>
              /\ attempts = <<>>
              /\ pc = "done" =>
                    outcome = HttpError(400, "action is required", <<>>)
        /\ (action \notin {NoAction, ""} /\ pc = "done") =>
              /\ CountOf(calls, "send_to_android") = 1
              /\ payload = [action |-> DeviceName(action), params |-> params]
              /\ \A i \in DOMAIN attempts : attempts[i].payload = payload
              /\ IF ForwarderSucceeded
                 THEN /\ outcome.status = 200
                      /\ outcome.ok
                      /\ outcome.action = NoAction
                      /\ outcome.android_response["_forwarded_via"]
                            = <<attempts[Len(attempts)].mode>>
                 ELSE /\ outcome.status = 502
                      /\ ~outcome.ok

C12_Witness ==
    /\ pc = "done"
    /\ route = "command"
    /\ discord_id = "1001"
    /\ action = "open_camera"
    /\ params # EmptyParams
    /\ CountOf(calls, "send_to_android") = 1
    /\ outcome.status = 200

\* an authorized /command request without an action was turned away
C12_RejectedWitness ==
    /\ pc = "done"
    /\ route = "command"
    /\ discord_id = "1001"
    /\ action = ""
    /\ outcome.status = 400

\* C13: on a successful forward the response handed back has every key of the
\* device's JSON mapping with the value the device gave it; the forwarding
\* metadata is added and overwrites nothing.
C13_DeviceKeysKept ==
    (pc = "done" /\ ForwarderSucceeded) =>
        LET data == attempts[Len(attempts)].answer.data
        IN  /\ DOMAIN data \subseteq DOMAIN outcome.android_response
            /\ \A k \in DOMAIN data : outcome.android_response[k] = data[k]

\* C14: a completion answer whose text is only under choices[0].text is
\* read like one whose text is under content or response: the extractor
\* returns what the text parses to, the fallback replies with the text.
C14_AllShapesRead ==
    (llm.kind = "ok" /\ DOMAIN llm.payload = {"choices"}) =>
        /\ llm.asked = "extract" =>
              params = Loaded(StripSet(llm.payload["choices"], WS))
        /\ llm.asked = "chat" =>
              outcome.reply = strip_emojis(llm.payload["choices"])

\* C15: the candidates are attempted one after the other in list order, the
\* local one first and then the remote one: a candidate is attempted only
\* after the attempt before it failed, no candidate is attempted twice, and
\* nothing is attempted after a success.
C15_SequentialInOrder ==
    LET n == Len(attempts)
    IN  /\ n <= 2
        /\ \A i \in 1..n : attempts[i].mode \in {"local", "remote"}
        /\ \A i \in 1..n, j \in 1..n :
              i < j => attempts[i].mode = "local" /\ attempts[j].mode = "remote"
        /\ (n >= 1 /\ StripSet(config.local, {" "}) # <<>>) =>
              attempts[1].mode = "local"
        /\ \A i \in 1..(n - 1) : attempts[i].answer.kind # "mapping"
        /\ (n >= 1 /\ attempts[n].answer.kind = "mapping") => pc = "done"

C15_Witness ==
    /\ pc = "done"
    /\ Len(attempts) = 2
    /\ attempts[1].mode = "local"
    /\ attempts[1].answer.kind = "status"
    /\ attempts[2].mode = "remote"
    /\ attempts[2].answer.kind = "mapping"

\* the actions the template table has a template for
TemplateActions ==
    {"read_text_messages", "read_email_summary", "add_calendar_reminder",
     "add_note", "send_sms", "send_email", "set_alarm", "play_spotify"}

\* C16: for an action without a template (get_notifications, or an action the
\* table does not have) extract asks for no template and returns the empty
\* mapping at once: on the action path of such a request the completion
\* service is never called.
C16_NoTemplateNoCompletion ==
    /\ \A a \in (ActionNames \cup CommandActions) \ TemplateActions :
          PromptTemplate(a) = "None"
    /\ (route = "task" /\ action \notin TemplateActions \cup {NoAction}) =>
          /\ "completion" \notin Range(calls)
          /\ llm = NoAnswer
          /\ "extract_params" \in Range(calls) =>
                /\ params = EmptyParams
                /\ pc \in {"forward", "attempt", "done"}
                /\ outcome.status \in {0, 200, 502}

C16_Witness ==
    /\ pc = "done"
    /\ route = "task"
    /\ action = "get_notifications"
    /\ "extract_params" \in Range(calls)
    /\ "completion" \notin Range(calls)
    /\ outcome.status = 200
    /\ outcome.params = EmptyParams

\* C17: the params of every command built are a mapping: whatever the
\* completion service answered, valid JSON that is not an object included,
\* what extract returned and what goes into the command and the response
\* is a mapping.
C17_ParamsIsMapping ==
    (route = "task" /\ "extract_params" \in Range(calls)
                    /\ pc \in {"forward", "attempt", "done"}) =>
        /\ params.kind = "object"
        /\ pc # "forward" => payload.params.kind = "object"
        /\ outcome.status = 200 => outcome.params.kind = "object"

\* within one request each of the classifier, the extractor, the fallback
\* and the forwarder was invoked at most once, the extractor before the
\* forwarder, and there is an outcome exactly when the handler is over
AtMostOnceInOrder ==
    /\ \A c \in {"is_greeting", "match_intent", "extract_params",
                  "query_llm_chat", "send_to_android"} : CountOf(calls, c) <= 1
    /\ \A i \in DOMAIN calls, j \in DOMAIN calls :
          (calls[i] = "send_to_android" /\ calls[j] = "extract_params") => j < i
    /\ ~("query_llm_chat" \in Range(calls) /\ "extract_params" \in Range(calls))
    /\ (pc = "done") <=> (outcome # NoOutcome)

\* C18: the orchestrator is linear, without loops or retries: as long as
\* every outbound call returns or fails, every request reaches a terminal
\* outcome, and exactly one (an outcome once set is not replaced: the next
\* step sends it); within the request each component runs at most once and
\* the extractor runs before the forwarder.
C18_LinearTermination ==
    /\ [](AtMostOnceInOrder)
    /\ [][outcome # NoOutcome => pc' = "idle"]_vars
    /\ (InFlight ~> (pc = "done"))

C18_Witness ==
    /\ pc = "done"
    /\ calls = <<"is_greeting", "match_intent", "extract_params", "completion",
                 "send_to_android", "device", "device">>
    /\ outcome.status = 502

\* the device endpoint answered the POST with a 2xx status
Accepted(ans) == ans.kind \in {"mapping", "notjson", "list"}

\* C19: within one forward call the command is accepted by at most one
\* candidate: once a candidate answered with a 2xx status, whatever the body
\* (not JSON, or JSON that is not a mapping), the command is sent to no
\* later candidate and the forward does not fail.
C19_AcceptedOnce ==
    \A i \in DOMAIN attempts :
        Accepted(attempts[i].answer) =>
            /\ i = Len(attempts)
            /\ pc = "done" => outcome.status = 200

\* every placeholder posted gets exactly one final edit: none while the
\* handler is at work, one when it returns, with a text to show
OneFinalEdit ==
    /\ Len(bot.posted) <= 1
    /\ bot.posted = <<>> => bot.edits = <<>>
    /\ bot.pc \in {"posting", "handle", "except"} =>
          bot.posted = <<PROCESSING>> /\ bot.edits = <<>>
    /\ (bot.pc = "done" /\ bot.posted # <<>>) =>
          /\ Len(bot.edits) = 1
          /\ bot.edits[1] \notin {<<>>, PROCESSING}
          /\ SumLen(bot.edits[1], 1, Len(bot.edits[1])) <= DISCORD_MESSAGE_LIMIT

\* the placeholder was posted for a message that is not the bot's own, is
\* from an allow-listed author and is a DM or mentions the bot
PostedForAddressedMessage ==
    bot.posted # <<>> =>
        /\ bot.msg.author # BotUser
        /\ bot.msg.author \in BOT_AUTHORIZED_DISCORD_IDS
        /\ ~bot.msg.guild \/ bot.msg.mentioned

\* the content with the mention token taken out
WithoutMention(c) == [i \in DOMAIN c |-> IF c[i] = Mention THEN "" ELSE c[i]]

\* C20: the connector posts the placeholder only for a message that is not
\* the bot's own, is from an allow-listed author, is a DM or mentions the
\* bot, and whose content is not empty once the mention is removed; and
\* every placeholder posted gets exactly one final edit on every path.
C20_PlaceholderOnlyAfterMentionRemoved ==
    /\ PostedForAddressedMessage
    /\ bot.posted # <<>> =>
          WithoutMention(bot.msg.content) \notin {<<>>, <<"">>}
    /\ OneFinalEdit

\* C20 amended: the mention is removed in guild channels only: the
\* placeholder is posted only for a message that is not the bot's own, is
\* from an allow-listed author, is a DM or mentions the bot, and whose
\* content is not empty, in a guild channel once the mention is removed and
\* the text stripped, in a DM as it was sent (a DM that is only the mention
\* is answered); and every placeholder posted gets exactly one final edit
\* on every path.
C20_PlaceholderAlwaysEdited ==
    /\ PostedForAddressedMessage
    /\ bot.posted # <<>> =>
          IF bot.msg.guild
          THEN \E i \in DOMAIN bot.msg.content :
                  bot.msg.content[i] \notin {Mention, ""}
          ELSE bot.msg.content \notin {<<>>, <<"">>}
    /\ OneFinalEdit

C20_Witness ==
    /\ bot.pc = "done"
    /\ ~bot.msg.guild
    /\ bot.msg.content = <<Mention>>
    /\ bot.posted = <<PROCESSING>>
    /\ bot.result.kind = "list"
    /\ bot.edits = <<<<"Error: ", "list">>>>

\* a reply over the limit was cut to fit
C20_TruncatedWitness ==
    /\ bot.pc = "done"
    /\ bot.result.data.reply = LongReply
    /\ Len(bot.edits) = 1
    /\ bot.edits[1] = [i \in 1..99 |-> Chunk] \o <<"\n\n[truncated]">>
====
